---- MODULE Spec2Model ----
(***************************************************************************)
(* BLE GATT server of esp-ir-record (src/src/bluetooth.rs).                *)
(*                                                                         *)
(* The program state is the State struct behind its mutex, the connected   *)
(* flag and the inbound buffer of BluetoothManager, and the position of    *)
(* every thread that is inside send_data.  The platform Bluetooth stack is *)
(* the environment: it owes registration events for the requests it        *)
(* accepted, keeps the links it reported as connected, and keeps the       *)
(* indications it accepted and has not confirmed yet.  Every event handler *)
(* runs to completion on the stack's callback task, so a handler is one    *)
(* action; a sender is one action per critical section of indicate().      *)
(*                                                                         *)
(* Left out: the State.response buffer (the response of a prepared write is *)
(* given by its content) and the poisoning of a mutex by a panicking        *)
(* holder.                                                                 *)
(***************************************************************************)
EXTENDS Integers, Sequences, FiniteSets, TLC

(* ------------------------------ constants ------------------------------ *)

APP_ID == 0
MAX_CONNECTIONS == 2

\* Option<T>: None is the empty tuple, Some(x) the one-element tuple.
None == <<>>
Some(x) == <<x>>

\* BdAddr values of the peers, ConnectionId values the stack hands out.
Addrs == {"A", "B"}
MaxLinks == 3
ConnIds == 0 .. (MaxLinks - 1)

\* Identifiers the stack hands out during registration.
\* (Handle and GattInterface values are opaque and only compared for equality.)
GATT_IF == "gatt_if"
SVC_HANDLE == "h_service"
RECV_ATTR == "h_recv"
IND_ATTR == "h_ind"
CCCD_ATTR == "h_cccd"
OTHER_ATTR == "h_other"
Handles == {RECV_ATTR, IND_ATTR, CCCD_ATTR, OTHER_ATTR}

RECV_CHARACTERISTIC_UUID == "b6fccb50"
IND_CHARACTERISTIC_UUID == "503de214"
CCCD_UUID == "2902"

\* GattStatus / BtStatus values: the classified ones and one further code.
GattStatuses == {"Ok", "Error", "InternalError", "Busy", "NoResources"}
BtStatuses == {"Success", "Fail", "NotReady", "Busy", "Pending"}

\* Payloads of write events: every 2-byte value over Bytes, and for each other
\* length up to MaxValueLen the value that starts like the subscribing one.
Bytes == {0, 2}
MaxValueLen == 3
Values ==
    [1 .. 2 -> Bytes]
        \cup {[i \in 1 .. n |-> IF i = 1 THEN 2 ELSE 0] : n \in 0 .. MaxValueLen}
Offsets == {0, 1}
\* Total number of bytes the peers write to the receive characteristic.
MaxWritten == 3
\* Number of write events whose parameters are kept as history.
MaxLogged == 1

\* Threads that call send_data.
Senders == {"t1", "t2"}

(* ------------------------------ variables ------------------------------ *)

VARIABLES
    gatt_if,            \* State.gatt_if
    service_handle,     \* State.service_handle
    recv_handle,        \* State.recv_handle
    ind_handle,         \* State.ind_handle
    ind_cccd_handle,    \* State.ind_cccd_handle
    connections,        \* State.connections (heapless::Vec, capacity 2)
    ind_confirmed,      \* State.ind_confirmed: the pending-indication marker
    is_connected,       \* BluetoothManager.is_connected
    received_data,      \* BluetoothManager.received_data
    pc,                 \* per sender: "idle", "locking" (about to lock), "waiting" (in condvar.wait)
    peer_index,         \* per sender: the loop variable of indicate()
    issued,             \* per sender: number of indications its current call has issued
    started,            \* platform: initialize() has run
    reg_events,         \* platform: registration events it still owes
    links,              \* platform: the links it reported, as <<conn_id, address>> pairs
    inflight,           \* platform: number of indications it accepted and has not confirmed
    written,            \* history: bytes appended to the inbound buffer so far
    drained,            \* history: bytes returned by get_received_data so far
    served,             \* history, per sender: the connection ids its call has indicated
    stayed,             \* history, per sender: the connection ids in the table ever
                        \* since its call began
    write_events,       \* history: the write events the logging steps delivered
    unconfirmed,        \* history, per sender: the peer its call indicated last, as
                        \* long as no Confirm event has been handled since
    locks,              \* the lock and unlock operations of the step that ran last,
                        \* in order
    last,               \* the handler or operation that ran last, its outcome (ok) and,
                        \* for a return of send_data, the number n of indications issued
    calls               \* outbound platform calls of the step that ran last

state_vars == <<gatt_if, service_handle, recv_handle, ind_handle, ind_cccd_handle,
                connections, ind_confirmed>>
reg_vars == <<gatt_if, service_handle, recv_handle, ind_handle, ind_cccd_handle>>
sender_vars == <<pc, peer_index, issued>>
buffer_vars == <<received_data, written, drained>>
delivery_vars == <<served, stayed>>
history_vars == <<served, stayed, write_events, unconfirmed>>
vars == <<gatt_if, service_handle, recv_handle, ind_handle, ind_cccd_handle,
          connections, ind_confirmed, is_connected, received_data,
          pc, peer_index, issued, started, reg_events, links, inflight,
          written, drained, served, stayed, write_events, unconfirmed,
          locks, last, calls>>

Init ==
    /\ gatt_if = None
    /\ service_handle = None
    /\ recv_handle = None
    /\ ind_handle = None
    /\ ind_cccd_handle = None
    /\ connections = <<>>
    /\ ind_confirmed = None
    /\ is_connected = FALSE
    /\ received_data = <<>>
    /\ pc = [t \in Senders |-> "idle"]
    /\ peer_index = [t \in Senders |-> 0]
    /\ issued = [t \in Senders |-> 0]
    /\ started = FALSE
    /\ reg_events = <<>>
    /\ links = {}
    /\ inflight = 0
    /\ written = <<>>
    /\ drained = <<>>
    /\ served = [t \in Senders |-> <<>>]
    /\ stayed = [t \in Senders |-> {}]
    /\ write_events = <<>>
    /\ unconfirmed = [t \in Senders |-> None]
    /\ locks = <<>>
    /\ last = [op |-> "new", ok |-> TRUE, n |-> 0]
    /\ calls = <<>>

(* --------------------------- status translators ------------------------ *)

\* The three mutexes of BluetoothManager.
Mutexes == {"state", "is_connected", "received_data"}

\* Mutex::lock, and the drop of the guard it returned.
Lock(m) == <<"lock", m>>
Unlock(m) == <<"unlock", m>>

\* The scope of a guard of mutex m: what runs between lock and drop is inner.
Scope(m, inner) == <<Lock(m)>> \o inner \o <<Unlock(m)>>

\* Result<(), EspError>: Ok(()) and Err(e); ESP_FAIL is the one error the
\* translators make.
OkUnit == <<"Ok">>
Err(e) == <<"Err", e>>
ESP_FAIL == "ESP_FAIL"

\* Faulty variant: every status but Success is a failure.
check_bt_strict(status) == IF status = "Success" THEN OkUnit ELSE Err(ESP_FAIL)

check_bt_status(status) ==
    CASE status = "Success" -> OkUnit
      [] status = "Fail" -> Err(ESP_FAIL)
      [] status = "NotReady" -> Err(ESP_FAIL)
      [] status = "Busy" -> Err(ESP_FAIL)
      [] OTHER -> OkUnit

\* Faulty variant: no status is a failure.
check_gatt_lenient(status) == OkUnit

check_gatt_status(status) ==
    CASE status = "Ok" -> OkUnit
      [] status = "Error" -> Err(ESP_FAIL)
      [] status = "InternalError" -> Err(ESP_FAIL)
      [] status = "Busy" -> Err(ESP_FAIL)
      [] OTHER -> OkUnit

(* ------------------------------ helpers -------------------------------- *)

\* The calls of `all` a handler reaches when its nfail-th call returns Err
\* (nfail = 0: none fails): every `?` returns at the first failure.
Attempted(all, nfail) ==
    IF nfail = 0 \/ nfail > Len(all) THEN all ELSE SubSeq(all, 1, nfail)

\* An outbound platform call: its name, its argument (as a string) and whether it
\* returned Ok.
Call(name, arg) == [call |-> name, arg |-> arg, ok |-> TRUE]

\* No call of cs returned Err.
Accepted(cs) == \A i \in 1 .. Len(cs) : cs[i].ok

\* The calls of `all` as the platform saw them when the nfail-th one returned Err.
Outcome(all, nfail) ==
    [i \in 1 .. Len(Attempted(all, nfail)) |-> [all[i] EXCEPT !.ok = (i # nfail)]]

\* Iterator::position over the peers: index of the first entry of conns whose
\* peer is addr, 0 when there is none.
position(conns, addr) ==
    IF \E i \in 1 .. Len(conns) : conns[i].peer = addr
    THEN CHOOSE i \in 1 .. Len(conns) :
             conns[i].peer = addr /\ \A j \in 1 .. (i - 1) : conns[j].peer # addr
    ELSE 0

\* A lookup that takes the first entry of the table for the connection of the
\* event, whatever its connection id.
find_first(conns, conn_id) == IF conns # <<>> THEN 1 ELSE 0

\* Iterator::find over the connection ids: index of the first entry of conns
\* whose conn_id is conn_id, 0 when there is none.
find(conns, conn_id) ==
    IF \E i \in 1 .. Len(conns) : conns[i].conn_id = conn_id
    THEN CHOOSE i \in 1 .. Len(conns) :
             conns[i].conn_id = conn_id
                 /\ \A j \in 1 .. (i - 1) : conns[j].conn_id # conn_id
    ELSE 0

\* heapless::Vec::swap_remove: the last element takes the place of the removed one.
swap_remove(s, index) ==
    IF index = Len(s)
    THEN SubSeq(s, 1, Len(s) - 1)
    ELSE [i \in 1 .. (Len(s) - 1) |-> IF i = index THEN s[Len(s)] ELSE s[i]]

\* Faulty variant: the two bytes read in big-endian order.
from_be_bytes(b0, b1) == 256 * b0 + b1

\* u16::from_le_bytes([b0, b1])
from_le_bytes(b0, b1) == b0 + 256 * b1

(* --------------------------- registration ------------------------------ *)

\* The registration event the platform owes for a call it accepted.
Owed(c) ==
    CASE c.call = "register_app" -> <<[ev |-> "ServiceRegistered", uuid |-> ""]>>
      [] c.call = "create_service" -> <<[ev |-> "ServiceCreated", uuid |-> ""]>>
      [] c.call = "add_characteristic" -> <<[ev |-> "CharacteristicAdded", uuid |-> c.arg]>>
      [] c.call = "add_descriptor" -> <<[ev |-> "DescriptorAdded", uuid |-> c.arg]>>
      [] OTHER -> <<>>

RECURSIVE OwedAll(_)
OwedAll(cs) ==
    IF cs = <<>> THEN <<>>
    ELSE (IF Head(cs).ok THEN Owed(Head(cs)) ELSE <<>>) \o OwedAll(Tail(cs))

\* The attribute handle the platform reports for an added attribute.
AttrOf(uuid) ==
    CASE uuid = RECV_CHARACTERISTIC_UUID -> RECV_ATTR
      [] uuid = IND_CHARACTERISTIC_UUID -> IND_ATTR
      [] uuid = CCCD_UUID -> CCCD_ATTR
      [] OTHER -> OTHER_ATTR

\* BluetoothManager::initialize: subscribes the two handlers, then register_app.
initialize(ok) ==
    /\ calls' = Outcome(<<Call("register_app", ToString(APP_ID))>>, IF ok THEN 0 ELSE 1)
    /\ last' = [op |-> "initialize", ok |-> ok, n |-> 0]
    /\ locks' = <<>>
    /\ UNCHANGED <<state_vars, is_connected, buffer_vars, sender_vars>>

\* create_service: records the interface, configures advertising, creates the service.
create_service(g, nfail) ==
    /\ gatt_if' = Some(g)
    /\ calls' = Outcome(<<Call("set_device_name", "ESP32-IR-Recorder"),
                          Call("set_adv_conf", "service_uuid"),
                          Call("create_service", "service_uuid")>>, nfail)
    /\ last' = [op |-> "ServiceRegistered", ok |-> Accepted(calls'), n |-> 0]
    /\ locks' = Scope("state", <<>>)
    /\ UNCHANGED <<service_handle, recv_handle, ind_handle, ind_cccd_handle>>

\* Faulty variant: the indicate characteristic added before the receive one.
add_characteristics_swapped(h) ==
    <<Call("add_characteristic", IND_CHARACTERISTIC_UUID),
      Call("add_characteristic", RECV_CHARACTERISTIC_UUID)>>

\* add_characteristics: the receive characteristic, then the indicate one.
add_characteristics(h) ==
    <<Call("add_characteristic", RECV_CHARACTERISTIC_UUID),
      Call("add_characteristic", IND_CHARACTERISTIC_UUID)>>

\* configure_and_start_service
configure_and_start_service(h, nfail) ==
    /\ service_handle' = Some(h)
    /\ calls' = Outcome(<<Call("start_service", h)>> \o add_characteristics(h), nfail)
    /\ last' = [op |-> "ServiceCreated", ok |-> Accepted(calls'), n |-> 0]
    /\ locks' = Scope("state", <<>>)
    /\ UNCHANGED <<gatt_if, recv_handle, ind_handle, ind_cccd_handle>>

\* A register_characteristic that keeps one characteristic handle at a time: it
\* forgets the receive handle when it records the indicate one.
register_characteristic_single(h, attr_handle, char_uuid, nfail) ==
    LET indicate_char == service_handle = Some(h) /\ char_uuid = IND_CHARACTERISTIC_UUID
    IN  /\ recv_handle' = IF service_handle = Some(h) /\ char_uuid = RECV_CHARACTERISTIC_UUID
                          THEN Some(attr_handle)
                          ELSE IF indicate_char THEN None ELSE recv_handle
        /\ ind_handle' = IF indicate_char THEN Some(attr_handle) ELSE ind_handle
        /\ calls' = IF indicate_char
                    THEN Outcome(<<Call("add_descriptor", CCCD_UUID)>>, nfail)
                    ELSE <<>>
        /\ last' = [op |-> "CharacteristicAdded", ok |-> Accepted(calls'), n |-> 0]
        /\ locks' = Scope("state", <<>>)
        /\ UNCHANGED <<gatt_if, service_handle, ind_cccd_handle>>

\* register_characteristic
register_characteristic(h, attr_handle, char_uuid, nfail) ==
    LET indicate_char ==
            IF service_handle # Some(h) THEN FALSE
            ELSE IF char_uuid = RECV_CHARACTERISTIC_UUID THEN FALSE
            ELSE IF char_uuid = IND_CHARACTERISTIC_UUID THEN TRUE
            ELSE FALSE
    IN  /\ recv_handle' = IF service_handle = Some(h) /\ char_uuid = RECV_CHARACTERISTIC_UUID
                          THEN Some(attr_handle) ELSE recv_handle
        /\ ind_handle' = IF service_handle = Some(h) /\ char_uuid # RECV_CHARACTERISTIC_UUID
                            /\ char_uuid = IND_CHARACTERISTIC_UUID
                         THEN Some(attr_handle) ELSE ind_handle
        /\ calls' = IF indicate_char
                    THEN Outcome(<<Call("add_descriptor", CCCD_UUID)>>, nfail)
                    ELSE <<>>
        /\ last' = [op |-> "CharacteristicAdded", ok |-> Accepted(calls'), n |-> 0]
        /\ locks' = Scope("state", <<>>)
        /\ UNCHANGED <<gatt_if, service_handle, ind_cccd_handle>>

\* register_cccd_descriptor
register_cccd_descriptor(h, attr_handle, descr_uuid) ==
    /\ ind_cccd_handle' = IF descr_uuid = CCCD_UUID /\ service_handle = Some(h)
                          THEN Some(attr_handle) ELSE ind_cccd_handle
    /\ calls' = <<>>
    /\ last' = [op |-> "DescriptorAdded", ok |-> TRUE, n |-> 0]
    /\ locks' = Scope("state", <<>>)
    /\ UNCHANGED <<gatt_if, service_handle, recv_handle, ind_handle>>

\* A handler that returns at its status check: nothing recorded, nothing called.
StatusError(op) ==
    /\ calls' = <<>>
    /\ last' = [op |-> op, ok |-> FALSE, n |-> 0]
    /\ locks' = <<>>
    /\ UNCHANGED reg_vars

\* on_gatts_event, the four registration arms.
on_ServiceRegistered(status, app_id, g, nfail) ==
    /\ IF check_gatt_status(status) # OkUnit THEN StatusError("ServiceRegistered")
       ELSE IF APP_ID = app_id THEN create_service(g, nfail)
       ELSE /\ calls' = <<>>
            /\ last' = [op |-> "ServiceRegistered", ok |-> TRUE, n |-> 0]
            /\ locks' = <<>>
            /\ UNCHANGED reg_vars
    /\ UNCHANGED <<connections, ind_confirmed, is_connected, buffer_vars, sender_vars>>

on_ServiceCreated(status, h, nfail) ==
    /\ IF check_gatt_status(status) # OkUnit THEN StatusError("ServiceCreated")
       ELSE configure_and_start_service(h, nfail)
    /\ UNCHANGED <<connections, ind_confirmed, is_connected, buffer_vars, sender_vars>>

on_CharacteristicAdded(status, attr_handle, h, char_uuid, nfail) ==
    /\ IF check_gatt_status(status) # OkUnit THEN StatusError("CharacteristicAdded")
       ELSE register_characteristic(h, attr_handle, char_uuid, nfail)
    /\ UNCHANGED <<connections, ind_confirmed, is_connected, buffer_vars, sender_vars>>

on_DescriptorAdded(status, attr_handle, h, descr_uuid) ==
    /\ IF check_gatt_status(status) # OkUnit THEN StatusError("DescriptorAdded")
       ELSE register_cccd_descriptor(h, attr_handle, descr_uuid)
    /\ UNCHANGED <<connections, ind_confirmed, is_connected, buffer_vars, sender_vars>>

\* The platform's side of a registration step: the event delivered is consumed,
\* the events for the calls it accepted are owed.
PlatformRegisters ==
    /\ reg_events' = (IF reg_events = <<>> THEN <<>> ELSE Tail(reg_events)) \o OwedAll(calls')
    /\ UNCHANGED <<links, inflight, history_vars>>

Initialize ==
    /\ ~started
    /\ started' = TRUE
    /\ \E ok \in BOOLEAN : initialize(ok)
    /\ PlatformRegisters

ServiceRegistered ==
    /\ reg_events # <<>> /\ Head(reg_events).ev = "ServiceRegistered"
    /\ \E status \in GattStatuses, nfail \in 0 .. 3 :
           on_ServiceRegistered(status, APP_ID, GATT_IF, nfail)
    /\ PlatformRegisters
    /\ UNCHANGED started

ServiceCreated ==
    /\ reg_events # <<>> /\ Head(reg_events).ev = "ServiceCreated"
    /\ \E status \in GattStatuses, nfail \in 0 .. 3 :
           on_ServiceCreated(status, SVC_HANDLE, nfail)
    /\ PlatformRegisters
    /\ UNCHANGED started

CharacteristicAdded ==
    /\ reg_events # <<>> /\ Head(reg_events).ev = "CharacteristicAdded"
    /\ \E status \in GattStatuses, nfail \in 0 .. 1 :
           on_CharacteristicAdded(status, AttrOf(Head(reg_events).uuid), SVC_HANDLE,
                                  Head(reg_events).uuid, nfail)
    /\ PlatformRegisters
    /\ UNCHANGED started

DescriptorAdded ==
    /\ reg_events # <<>> /\ Head(reg_events).ev = "DescriptorAdded"
    /\ \E status \in GattStatuses :
           on_DescriptorAdded(status, AttrOf(Head(reg_events).uuid), SVC_HANDLE,
                              Head(reg_events).uuid)
    /\ PlatformRegisters
    /\ UNCHANGED started

(* ------------------------------ GAP events ----------------------------- *)

GapEvents ==
    {"AdvertisingConfigured", "AdvertisingStarted", "AdvertisingStopped", "Other"}

\* A GAP handler that restarts the advertising only while the table has room.
on_gap_event_room(event, status, adv_ok) ==
    /\ IF event = "AdvertisingStopped" /\ Len(connections) < MAX_CONNECTIONS
       THEN /\ calls' = Outcome(<<Call("start_advertising", "")>>,
                                IF adv_ok THEN 0 ELSE 1)
            /\ last' = [op |-> event, ok |-> Accepted(calls'), n |-> 0]
       ELSE /\ calls' = <<>>
            /\ last' = [op |-> event, ok |-> TRUE, n |-> 0]
    /\ locks' = <<>>
    /\ UNCHANGED <<state_vars, is_connected, buffer_vars, sender_vars>>

\* on_gap_event; adv_ok is the result of start_advertising.
on_gap_event(event, status, adv_ok) ==
    /\ IF event = "AdvertisingConfigured"
       THEN IF check_bt_status(status) # OkUnit
            THEN /\ calls' = <<>>
                 /\ last' = [op |-> event, ok |-> FALSE, n |-> 0]
            ELSE /\ calls' = Outcome(<<Call("start_advertising", "")>>,
                                     IF adv_ok THEN 0 ELSE 1)
                 /\ last' = [op |-> event, ok |-> Accepted(calls'), n |-> 0]
       ELSE IF event = "AdvertisingStarted"
       THEN /\ calls' = <<>>
            /\ last' = [op |-> event, ok |-> check_bt_status(status) = OkUnit, n |-> 0]
       ELSE IF event = "AdvertisingStopped"
       THEN /\ calls' = Outcome(<<Call("start_advertising", "")>>,
                                IF adv_ok THEN 0 ELSE 1)
            /\ last' = [op |-> event, ok |-> Accepted(calls'), n |-> 0]
       ELSE /\ calls' = <<>>
            /\ last' = [op |-> event, ok |-> TRUE, n |-> 0]
    /\ locks' = <<>>
    /\ UNCHANGED <<state_vars, is_connected, buffer_vars, sender_vars>>

\* The platform delivers a GAP event, with any status, once initialize has
\* subscribed the handler.
GapEvent ==
    /\ started
    /\ \E event \in GapEvents, status \in BtStatuses, adv_ok \in BOOLEAN :
           on_gap_event(event, status, adv_ok)
    /\ UNCHANGED <<history_vars, started, reg_events, links, inflight>>

(* --------------------------- connection table -------------------------- *)

Connection(addr, conn_id) ==
    [peer |-> addr, conn_id |-> conn_id, subscribed |-> FALSE, mtu |-> None]

\* Faulty variant: the capacity test off by one.
HasRoomOffByOne(conns) == Len(conns) <= MAX_CONNECTIONS

\* The capacity test of create_conn.
HasRoom(conns) == Len(conns) < MAX_CONNECTIONS

\* create_conn; params_ok is the result of set_conn_params_conf.
create_conn(conn_id, addr, params_ok) ==
    LET added == HasRoom(connections)
    IN  /\ connections' = IF added THEN Append(connections, Connection(addr, conn_id))
                          ELSE connections
        /\ calls' = IF added
                    THEN Outcome(<<Call("set_conn_params_conf", addr)>>,
                                 IF params_ok THEN 0 ELSE 1)
                    ELSE <<>>
        /\ is_connected' = IF added /\ params_ok THEN TRUE ELSE is_connected
        /\ last' = [op |-> "PeerConnected", ok |-> ~added \/ params_ok, n |-> 0]
        /\ locks' = Scope("state", <<>>)
                        \o (IF added /\ params_ok THEN Scope("is_connected", <<>>)
                            ELSE <<>>)
        /\ UNCHANGED <<reg_vars, ind_confirmed, buffer_vars, sender_vars>>

\* Faulty variant: advertising restarted on every disconnect.
RestartsAlways(conns) == TRUE

\* The test of delete_conn that decides whether advertising is restarted.
RestartsAdvertising(conns) == conns = <<>>

\* Faulty variant: a disconnect clears the pending marker and wakes the waiters.
delete_conn_clearing(addr) ==
    LET index == position(connections, addr)
    IN  /\ connections' = IF index # 0 THEN swap_remove(connections, index)
                          ELSE connections
        /\ is_connected' = FALSE
        /\ calls' = IF connections' = <<>>
                    THEN <<Call("start_advertising", "")>>
                    ELSE <<>>
        /\ last' = [op |-> "PeerDisconnected", ok |-> TRUE, n |-> 0]
        /\ locks' = Scope("state", Scope("is_connected", <<>>))
        /\ ind_confirmed' = None
        /\ pc' = [t \in DOMAIN pc |-> IF pc[t] = "waiting" THEN "locking" ELSE pc[t]]
        /\ UNCHANGED <<reg_vars, buffer_vars, peer_index, issued>>

\* A delete_conn that leaves the connected flag as it finds it.
delete_conn_flagged(addr) ==
    LET index == position(connections, addr)
    IN  /\ connections' = IF index # 0 THEN swap_remove(connections, index)
                          ELSE connections
        /\ is_connected' = is_connected
        /\ calls' = IF RestartsAdvertising(connections')
                    THEN <<Call("start_advertising", "")>>
                    ELSE <<>>
        /\ last' = [op |-> "PeerDisconnected", ok |-> TRUE, n |-> 0]
        /\ locks' = Scope("state", <<>>)
        /\ UNCHANGED <<reg_vars, ind_confirmed, buffer_vars, sender_vars>>

\* delete_conn (a failure of start_advertising is only logged).
delete_conn(addr) ==
    LET index == position(connections, addr)
    IN  /\ connections' = IF index # 0 THEN swap_remove(connections, index)
                          ELSE connections
        /\ is_connected' = FALSE
        /\ calls' = IF RestartsAdvertising(connections')
                    THEN <<Call("start_advertising", "")>>
                    ELSE <<>>
        /\ last' = [op |-> "PeerDisconnected", ok |-> TRUE, n |-> 0]
        /\ locks' = Scope("state", Scope("is_connected", <<>>))
        /\ UNCHANGED <<reg_vars, ind_confirmed, buffer_vars, sender_vars>>

\* The server is Ready: the registration sequence ran to its end.
Ready ==
    /\ reg_events = <<>>
    /\ gatt_if # None /\ service_handle # None
    /\ recv_handle # None /\ ind_handle # None /\ ind_cccd_handle # None

\* The platform reports a new link: a connection id of Ids it is not using, any
\* address.  Registration events strictly precede connection events, and peers
\* connect to a server whose registration succeeded.
PeerConnectedOf(Ids) ==
    /\ Ready
    /\ \E c \in Ids, a \in Addrs, params_ok \in BOOLEAN :
           /\ \A l \in links : l[1] # c
           /\ links' = links \cup {<<c, a>>}
           /\ create_conn(c, a, params_ok)
    /\ UNCHANGED <<history_vars, started, reg_events, inflight>>

\* A new link, of up to MaxLinks at a time.
PeerConnected == PeerConnectedOf(ConnIds)

\* A new link of a platform that keeps no more links than the table has slots.
PeerConnectedInTable == PeerConnectedOf(0 .. (MAX_CONNECTIONS - 1))

\* The platform reports that one of its links is gone.
PeerDisconnected ==
    /\ \E l \in links :
           /\ links' = links \ {l}
           /\ delete_conn(l[2])
    /\ UNCHANGED <<history_vars, started, reg_events, inflight>>

(* ------------------------- MTU and read events ------------------------- *)

\* The MTU value a peer negotiates.
Mtus == {23}

\* register_conn_mtu
register_conn_mtu(conn_id, mtu) ==
    LET idx == find(connections, conn_id)
    IN  /\ connections' = IF idx # 0 THEN [connections EXCEPT ![idx].mtu = Some(mtu)]
                          ELSE connections
        /\ calls' = <<>>
        /\ last' = [op |-> "Mtu", ok |-> TRUE, n |-> 0]
        /\ locks' = Scope("state", <<>>)
        /\ UNCHANGED <<reg_vars, ind_confirmed, is_connected, buffer_vars, sender_vars>>

\* The platform reports the MTU of one of its links.
MtuEvent ==
    /\ \E l \in links, mtu \in Mtus : register_conn_mtu(l[1], mtu)
    /\ UNCHANGED <<history_vars, started, reg_events, links, inflight>>

\* A Read arm that takes a handle it has not recorded yet for the requested one.
read_response_unset(handle) ==
    IF recv_handle = None \/ Some(handle) = recv_handle THEN <<"Ok", None>>
    ELSE IF Some(handle) = ind_handle THEN <<"Ok", None>>
    ELSE IF Some(handle) = ind_cccd_handle THEN <<"Ok", Some(<<0, 0>>)>>
    ELSE <<"Error", None>>

\* A Read arm that answers a read of the CCCD with the subscriptions it stored.
read_response_stored(handle) ==
    IF Some(handle) = recv_handle THEN <<"Ok", None>>
    ELSE IF Some(handle) = ind_handle THEN <<"Ok", None>>
    ELSE IF Some(handle) = ind_cccd_handle
    THEN IF \E i \in 1 .. Len(connections) : connections[i].subscribed
         THEN <<"Ok", Some(<<2, 0>>)>>
         ELSE <<"Ok", Some(<<0, 0>>)>>
    ELSE <<"Error", None>>

\* The response to a read of `handle`: its status and its value.
read_response(handle) ==
    IF Some(handle) = recv_handle THEN <<"Ok", None>>
    ELSE IF Some(handle) = ind_handle THEN <<"Ok", None>>
    ELSE IF Some(handle) = ind_cccd_handle THEN <<"Ok", Some(<<0, 0>>)>>
    ELSE <<"Error", None>>

\* on_gatts_event, the Read arm; rsp_ok is the result of send_response.  The
\* guard of the state lock lives to the end of the arm.
on_Read(conn_id, handle, offset, rsp_ok) ==
    /\ calls' = Outcome(<<Call("send_response",
                               ToString(<<conn_id>> \o read_response(handle)))>>,
                        IF rsp_ok THEN 0 ELSE 1)
    /\ last' = [op |-> "Read", ok |-> rsp_ok, n |-> 0]
    /\ locks' = Scope("state", <<>>)
    /\ UNCHANGED <<state_vars, is_connected, buffer_vars, sender_vars>>

\* The platform delivers a read request of one of its links.
ReadEvent ==
    /\ \E l \in links, handle \in Handles, offset \in Offsets, rsp_ok \in BOOLEAN :
           on_Read(l[1], handle, offset, rsp_ok)
    /\ UNCHANGED <<history_vars, started, reg_events, links, inflight>>

\* A read request at any time, of any connection id: the Read arm consults
\* neither the links nor the table, and the registration may still be running.
ReadRequest ==
    /\ \E conn_id \in ConnIds, handle \in Handles, offset \in Offsets, rsp_ok \in BOOLEAN :
           on_Read(conn_id, handle, offset, rsp_ok)
    /\ UNCHANGED <<history_vars, started, reg_events, links, inflight>>

(* ----------------------------- write events ---------------------------- *)

\* The CCCD value that subscribes: the comparison of recv.
Subscribes(value) == from_le_bytes(value[1], value[2]) = 2

\* The subscription arm of recv: the table after a CCCD write by the entry at idx.
cccd_write(conns, idx, offset, value) ==
    IF offset = 0 /\ Len(value) = 2
    THEN IF Subscribes(value)
         THEN IF ~conns[idx].subscribed
              THEN [conns EXCEPT ![idx].subscribed = TRUE]
              ELSE conns
         ELSE IF conns[idx].subscribed
              THEN [conns EXCEPT ![idx].subscribed = FALSE]
              ELSE conns
    ELSE conns

\* The receive arm of recv: the inbound buffer after a write of value.
extend_from_slice(data_vec, value) == data_vec \o value

\* recv returns whether the write was handled.
recv_handled(conn_id, handle) ==
    /\ find(connections, conn_id) # 0
    /\ \/ Some(handle) = ind_cccd_handle
       \/ Some(handle) = recv_handle

\* recv: the effect on the table and on the inbound buffer.
recv(conn_id, addr, handle, offset, value) ==
    LET idx == find(connections, conn_id)
    IN  IF idx = 0
        THEN UNCHANGED <<connections, received_data>>
        ELSE IF Some(handle) = ind_cccd_handle
        THEN /\ connections' = cccd_write(connections, idx, offset, value)
             /\ UNCHANGED received_data
        ELSE IF Some(handle) = recv_handle
        THEN /\ received_data' = extend_from_slice(received_data, value)
             /\ UNCHANGED connections
        ELSE UNCHANGED <<connections, received_data>>

\* Faulty variant: recv takes the buffer lock first and the state lock inside.
recv_scopes_reversed(appends) ==
    IF appends THEN Scope("received_data", Scope("state", <<>>))
    ELSE Scope("state", <<>>)

\* The locks of recv: the guard of the state lock lives to the end of the
\* function, the buffer is locked inside the receive arm.
recv_scopes(appends) ==
    Scope("state", IF appends THEN Scope("received_data", <<>>) ELSE <<>>)

\* recv reaches its receive arm.
recv_appends(conn_id, handle) ==
    /\ find(connections, conn_id) # 0
    /\ Some(handle) # ind_cccd_handle
    /\ Some(handle) = recv_handle

\* Faulty variant: a prepared write is answered like a normal one, without echo.
send_write_response_bare(conn_id, handle, offset, need_rsp, is_prep, value) ==
    IF ~need_rsp THEN <<>>
    ELSE <<Call("send_response", ToString(<<conn_id, "Ok">>))>>

\* send_write_response: the calls it makes.
send_write_response(conn_id, handle, offset, need_rsp, is_prep, value) ==
    IF ~need_rsp THEN <<>>
    ELSE IF is_prep
    THEN <<Call("send_response", ToString(<<conn_id, "Ok", handle, offset, value>>))>>
    ELSE <<Call("send_response", ToString(<<conn_id, "Ok">>))>>

\* on_gatts_event, the Write arm; rsp_ok is the result of send_response.
on_Write(conn_id, addr, handle, offset, need_rsp, is_prep, value, rsp_ok) ==
    /\ recv(conn_id, addr, handle, offset, value)
    /\ calls' = IF recv_handled(conn_id, handle)
                THEN Outcome(send_write_response(conn_id, handle, offset, need_rsp,
                                                 is_prep, value),
                             IF rsp_ok THEN 0 ELSE 1)
                ELSE <<>>
    /\ last' = [op |-> "Write", ok |-> Accepted(calls'), n |-> 0]
    /\ locks' = recv_scopes(recv_appends(conn_id, handle))
                    \o (IF recv_handled(conn_id, handle) /\ need_rsp /\ is_prep
                        THEN Scope("state", <<>>) ELSE <<>>)
    /\ UNCHANGED <<reg_vars, ind_confirmed, is_connected, sender_vars>>

\* The payload a write event adds to the stream of bytes written to the receive
\* characteristic: the event's value when it comes from a connection of the table
\* and names the receive characteristic.
WrittenBy(conn_id, handle, value) ==
    IF /\ \E i \in 1 .. Len(connections) : connections[i].conn_id = conn_id
       /\ Some(handle) = recv_handle
       /\ Some(handle) # ind_cccd_handle
    THEN value ELSE <<>>

\* The payloads of a write event: any value for the descriptor and for foreign
\* handles; for the receive characteristic the next n bytes of a numbered
\* stream (1, 2, 3, ...), so that loss, duplication and reordering all show.
Payloads(handle) ==
    IF handle = RECV_ATTR
    THEN {[i \in 1 .. n |-> Len(written) + i] : n \in 0 .. MaxValueLen}
    ELSE Values

\* The platform delivers a write event of one of its links, for a handle of Hs
\* and with a need_rsp flag of NeedRsp (a prepared write is always a request).
WriteEvent(Hs, NeedRsp) ==
    /\ \E l \in links, handle \in Hs, offset \in Offsets,
          need_rsp \in NeedRsp :
       \E is_prep \in (IF need_rsp THEN BOOLEAN ELSE {FALSE}),
          value \in Payloads(handle), rsp_ok \in (IF need_rsp THEN BOOLEAN ELSE {TRUE}) :
           /\ written' = written \o WrittenBy(l[1], handle, value)
           /\ Len(written') <= MaxWritten
           /\ on_Write(l[1], l[2], handle, offset, need_rsp, is_prep, value, rsp_ok)
    /\ UNCHANGED <<drained, history_vars, started, reg_events, links, inflight>>

\* A write without response to the descriptor.
WriteCccd == WriteEvent({CCCD_ATTR}, {FALSE})

\* A write without response to the receive characteristic.
WriteRecv == WriteEvent({RECV_ATTR}, {FALSE})

\* A write the peer wants a response to.
WriteRequest == WriteEvent(Handles, {TRUE})

\* The same write event, added to the history for the step's outcome to be
\* compared with; at most MaxLogged events are followed that closely.
WriteLogged(Hs, NeedRsp) ==
    /\ Len(write_events) < MaxLogged
    /\ \E l \in links, handle \in Hs, offset \in Offsets,
          need_rsp \in NeedRsp :
       \E is_prep \in (IF need_rsp THEN BOOLEAN ELSE {FALSE}),
          value \in Payloads(handle), rsp_ok \in (IF need_rsp THEN BOOLEAN ELSE {TRUE}) :
           /\ written' = written \o WrittenBy(l[1], handle, value)
           /\ Len(written') <= MaxWritten
           /\ on_Write(l[1], l[2], handle, offset, need_rsp, is_prep, value, rsp_ok)
           /\ write_events' = Append(write_events,
                                     [conn_id |-> l[1], handle |-> handle,
                                      offset |-> offset, need_rsp |-> need_rsp,
                                      is_prep |-> is_prep, value |-> value,
                                      rsp_ok |-> rsp_ok])
    /\ UNCHANGED <<drained, delivery_vars, unconfirmed, started, reg_events, links,
                   inflight>>

\* A write of any kind to any handle.
WriteAny == WriteLogged(Handles, BOOLEAN)

\* One link more than the table has slots.
PeerConnectedOneMore == PeerConnectedOf(0 .. MAX_CONNECTIONS)

\* Faulty variant: the buffer is returned but not cleared.
clear_skipped(data_vec) == data_vec

\* Vec::clear
clear(data_vec) == <<>>

\* get_received_data: returns a copy of the buffer and clears it.
get_received_data ==
    /\ LET result_ == received_data
       IN  drained' = drained \o result_
    /\ received_data' = clear(received_data)
    /\ calls' = <<>>
    /\ last' = [op |-> "get_received_data", ok |-> TRUE, n |-> 0]
    /\ locks' = Scope("received_data", <<>>)
    /\ UNCHANGED <<state_vars, is_connected, written, sender_vars,
                   history_vars, started, reg_events, links, inflight>>

(* ------------------------- indication flow control --------------------- *)

\* Faulty variant: the confirmation handler wakes nobody.
notify_none(p) == p

\* Faulty variant: the confirmation handler wakes one blocked thread only.
notify_one(p) ==
    IF \E t \in Senders : p[t] = "waiting"
    THEN [p EXCEPT ![CHOOSE t \in Senders : p[t] = "waiting"] = "locking"]
    ELSE p

\* Condvar::notify_all: every thread blocked in wait goes on to take the lock again.
notify_all(p) == [t \in Senders |-> IF p[t] = "waiting" THEN "locking" ELSE p[t]]

\* confirm_indication; the unreachable!() arm is recorded as the step's outcome.
confirm_indication ==
    IF ind_confirmed = None
    THEN /\ last' = [op |-> "unreachable!", ok |-> FALSE, n |-> 0]
         /\ UNCHANGED <<ind_confirmed, pc>>
    ELSE /\ ind_confirmed' = None
         /\ pc' = notify_all(pc)
         /\ last' = [op |-> "Confirm", ok |-> TRUE, n |-> 0]

\* on_gatts_event, the Confirm arm.
on_Confirm(status) ==
    /\ IF check_gatt_status(status) # OkUnit
       THEN /\ last' = [op |-> "Confirm", ok |-> FALSE, n |-> 0]
            /\ UNCHANGED <<ind_confirmed, pc>>
       ELSE confirm_indication
    /\ calls' = <<>>
    /\ locks' = IF check_gatt_status(status) # OkUnit THEN <<>>
                ELSE Scope("state", <<>>)
    /\ UNCHANGED <<reg_vars, connections, is_connected, buffer_vars,
                   peer_index, issued>>

\* The Confirm event as on_gatts_event matches it, `Confirm { status, .. }`: the
\* connection the event carries is dropped by the pattern.
on_ConfirmEvent(status, conn_id) == on_Confirm(status)

\* The platform confirms an indication it accepted; the event carries one of the
\* platform's connection ids (an id is free again after a disconnect, so the id
\* of the confirmed indication may by now belong to another peer, or to none).
ConfirmFor ==
    /\ inflight > 0
    /\ inflight' = inflight - 1
    /\ \E status \in GattStatuses, conn_id \in ConnIds :
           on_ConfirmEvent(status, conn_id)
    /\ UNCHANGED <<history_vars, started, reg_events, links>>

\* The platform confirms an indication it accepted, with a status of Statuses.
ConfirmWith(Statuses) ==
    /\ inflight > 0
    /\ inflight' = inflight - 1
    /\ \E status \in Statuses : on_Confirm(status)
    /\ UNCHANGED <<history_vars, started, reg_events, links>>

\* A confirmation with any status.
Confirm == ConfirmWith(GattStatuses)

\* A confirmation with the success status.
ConfirmSuccess == ConfirmWith({"Ok"})

\* What `last` records of a step of a sender: a step that leaves the thread
\* inside send_data, or the return of send_data with its outcome and the number of
\* indications the call issued.
Running == [op |-> "send_data", ok |-> TRUE, n |-> 0]
Returned(ok, n) == [op |-> "returned", ok |-> ok, n |-> n]

\* Faulty variant: send_data calls indicate without a look at the connected flag.
send_data_unchecked(t) ==
    /\ pc[t] = "idle"
    /\ last' = Running
    /\ pc' = [pc EXCEPT ![t] = "locking"]
    /\ peer_index' = [peer_index EXCEPT ![t] = 0]
    /\ issued' = [issued EXCEPT ![t] = 0]
    /\ calls' = <<>>
    /\ locks' = Scope("is_connected", <<>>)
    /\ UNCHANGED <<state_vars, is_connected, buffer_vars>>

\* send_data up to the call of indicate: the connected flag decides.
send_data(t) ==
    /\ pc[t] = "idle"
    /\ IF ~is_connected
       THEN /\ last' = Returned(FALSE, 0)
            /\ UNCHANGED <<pc, peer_index, issued>>
       ELSE /\ last' = Running
            /\ pc' = [pc EXCEPT ![t] = "locking"]
            /\ peer_index' = [peer_index EXCEPT ![t] = 0]
            /\ issued' = [issued EXCEPT ![t] = 0]
    /\ calls' = <<>>
    /\ locks' = Scope("is_connected", <<>>)
    /\ UNCHANGED <<state_vars, is_connected, buffer_vars>>

\* Faulty variant: the gate of indicate left open.
MaySendAlways(marker) == TRUE

\* The gate of indicate: an indication may be issued when none is pending.
MaySend(marker) == marker = None

\* Faulty variant: indicate stores no marker.
MarkNothing(conn) == None

\* The marker indicate stores after the platform accepted the indication.
MarkPending(conn) == Some(conn.peer)

\* Faulty variant: the for loop of indicate runs one slot too far.
NextSlotOffByOne(t, n) ==
    IF peer_index[t] + 1 <= MAX_CONNECTIONS
    THEN /\ peer_index' = [peer_index EXCEPT ![t] = peer_index[t] + 1]
         /\ pc' = [pc EXCEPT ![t] = "locking"]
         /\ issued' = [issued EXCEPT ![t] = n]
         /\ last' = Running
    ELSE /\ peer_index' = [peer_index EXCEPT ![t] = 0]
         /\ pc' = [pc EXCEPT ![t] = "idle"]
         /\ issued' = [issued EXCEPT ![t] = 0]
         /\ last' = Returned(TRUE, n)

\* The end of one iteration of the for loop of indicate (the lock is dropped)
\* for a call that has issued n indications: the next slot, or the return of
\* indicate and of send_data with Ok.
NextSlot(t, n) ==
    IF peer_index[t] + 1 < MAX_CONNECTIONS
    THEN /\ peer_index' = [peer_index EXCEPT ![t] = peer_index[t] + 1]
         /\ pc' = [pc EXCEPT ![t] = "locking"]
         /\ issued' = [issued EXCEPT ![t] = n]
         /\ last' = Running
    ELSE /\ peer_index' = [peer_index EXCEPT ![t] = 0]
         /\ pc' = [pc EXCEPT ![t] = "idle"]
         /\ issued' = [issued EXCEPT ![t] = 0]
         /\ last' = Returned(TRUE, n)

\* Faulty variant: indicate passes over a connection that has not subscribed.
indicate_subscribers(t, ind_ok) ==
    /\ pc[t] = "locking"
    /\ IF \/ Len(connections) <= peer_index[t]
          \/ gatt_if = None
          \/ ind_handle = None
          \/ ~connections[peer_index[t] + 1].subscribed
       THEN /\ NextSlot(t, issued[t])
            /\ calls' = <<>>
            /\ UNCHANGED <<ind_confirmed, inflight>>
       ELSE IF MaySend(ind_confirmed)
       THEN LET conn == connections[peer_index[t] + 1]
            IN  /\ calls' = Outcome(<<Call("indicate", ToString(conn.conn_id))>>,
                                    IF ind_ok THEN 0 ELSE 1)
                /\ IF ind_ok
                   THEN /\ ind_confirmed' = MarkPending(conn)
                        /\ inflight' = inflight + 1
                        /\ NextSlot(t, issued[t] + 1)
                   ELSE /\ pc' = [pc EXCEPT ![t] = "idle"]
                        /\ peer_index' = [peer_index EXCEPT ![t] = 0]
                        /\ issued' = [issued EXCEPT ![t] = 0]
                        /\ last' = Returned(FALSE, issued[t])
                        /\ UNCHANGED <<ind_confirmed, inflight>>
       ELSE /\ pc' = [pc EXCEPT ![t] = "waiting"]
            /\ calls' = <<>>
            /\ last' = Running
            /\ UNCHANGED <<ind_confirmed, issued, inflight, peer_index>>
    /\ locks' = Scope("state", <<>>)
    /\ UNCHANGED <<reg_vars, connections, is_connected, buffer_vars>>

\* An indicate that stores the marker before it looks at the result of the
\* platform call.
indicate_marking(t, ind_ok) ==
    /\ pc[t] = "locking"
    /\ IF \/ Len(connections) <= peer_index[t]
          \/ gatt_if = None
          \/ ind_handle = None
       THEN /\ NextSlot(t, issued[t])
            /\ calls' = <<>>
            /\ UNCHANGED <<ind_confirmed, inflight>>
       ELSE IF MaySend(ind_confirmed)
       THEN LET conn == connections[peer_index[t] + 1]
            IN  /\ calls' = Outcome(<<Call("indicate", ToString(conn.conn_id))>>,
                                    IF ind_ok THEN 0 ELSE 1)
                /\ IF ind_ok
                   THEN /\ ind_confirmed' = MarkPending(conn)
                        /\ inflight' = inflight + 1
                        /\ NextSlot(t, issued[t] + 1)
                   ELSE /\ pc' = [pc EXCEPT ![t] = "idle"]
                        /\ peer_index' = [peer_index EXCEPT ![t] = 0]
                        /\ issued' = [issued EXCEPT ![t] = 0]
                        /\ last' = Returned(FALSE, issued[t])
                        /\ ind_confirmed' = MarkPending(conn)
                        /\ UNCHANGED inflight
       ELSE /\ pc' = [pc EXCEPT ![t] = "waiting"]
            /\ calls' = <<>>
            /\ last' = Running
            /\ UNCHANGED <<ind_confirmed, issued, inflight, peer_index>>
    /\ locks' = Scope("state", <<>>)
    /\ UNCHANGED <<reg_vars, connections, is_connected, buffer_vars>>

\* One critical section of indicate for the slot peer_index[t]: from taking the
\* lock (at the top of the for body, or on return from condvar.wait) to dropping
\* it (at a break, at the error return, or inside condvar.wait).  ind_ok is the
\* result of the platform's indicate call.
indicate(t, ind_ok) ==
    /\ pc[t] = "locking"
    /\ IF \/ Len(connections) <= peer_index[t]
          \/ gatt_if = None
          \/ ind_handle = None
       THEN /\ NextSlot(t, issued[t])
            /\ calls' = <<>>
            /\ UNCHANGED <<ind_confirmed, inflight>>
       ELSE IF MaySend(ind_confirmed)
       THEN LET conn == connections[peer_index[t] + 1]
            IN  /\ calls' = Outcome(<<Call("indicate", ToString(conn.conn_id))>>,
                                    IF ind_ok THEN 0 ELSE 1)
                /\ IF ind_ok
                   THEN /\ ind_confirmed' = MarkPending(conn)
                        /\ inflight' = inflight + 1
                        /\ NextSlot(t, issued[t] + 1)
                   ELSE /\ pc' = [pc EXCEPT ![t] = "idle"]
                        /\ peer_index' = [peer_index EXCEPT ![t] = 0]
                        /\ issued' = [issued EXCEPT ![t] = 0]
                        /\ last' = Returned(FALSE, issued[t])
                        /\ UNCHANGED <<ind_confirmed, inflight>>
       ELSE /\ pc' = [pc EXCEPT ![t] = "waiting"]
            /\ calls' = <<>>
            /\ last' = Running
            /\ UNCHANGED <<ind_confirmed, issued, inflight, peer_index>>
    /\ locks' = Scope("state", <<>>)
    /\ UNCHANGED <<reg_vars, connections, is_connected, buffer_vars>>

\* The connection ids of the table.
ConnIdsOf(conns) == {conns[i].conn_id : i \in 1 .. Len(conns)}

\* A thread calls send_data; the history of the call starts with the table as the
\* call finds it.
DeliverySendData ==
    /\ \E t \in Senders :
           /\ send_data(t)
           /\ IF is_connected
              THEN /\ served' = [served EXCEPT ![t] = <<>>]
                   /\ stayed' = [stayed EXCEPT ![t] = ConnIdsOf(connections)]
              ELSE UNCHANGED delivery_vars
    /\ UNCHANGED <<write_events, unconfirmed, started, reg_events, links, inflight>>

\* Thread t, inside indicate, runs its next critical section; an indication the
\* platform accepted is added to the history of the call.
DeliveryStep(t) ==
    /\ \E ind_ok \in BOOLEAN : indicate(t, ind_ok)
    /\ served' = IF inflight' > inflight
                 THEN [served EXCEPT
                          ![t] = Append(@, connections[peer_index[t] + 1].conn_id)]
                 ELSE served
    /\ UNCHANGED <<stayed, write_events, unconfirmed, started, reg_events, links>>

DeliveryIndicate == \E t \in Senders : DeliveryStep(t)

\* The platform reports that one of its links is gone; a connection that left the
\* table has not stayed for the calls that are under way.
DeliveryDisconnected ==
    /\ \E l \in links :
           /\ links' = links \ {l}
           /\ delete_conn(l[2])
    /\ stayed' = [t \in Senders |->
                     IF pc[t] = "idle" THEN stayed[t]
                     ELSE stayed[t] \cap ConnIdsOf(connections')]
    /\ UNCHANGED <<served, write_events, unconfirmed, started, reg_events, inflight>>

\* A thread calls send_data; its call has indicated no peer yet.
PendingSendData ==
    /\ \E t \in Senders :
           /\ send_data(t)
           /\ unconfirmed' = [unconfirmed EXCEPT ![t] = None]
    /\ UNCHANGED <<delivery_vars, write_events, started, reg_events, links, inflight>>

\* Thread t, inside indicate, runs its next critical section; the peer of an
\* indication the platform accepted is the peer the call indicated last.
PendingStep(t) ==
    /\ \E ind_ok \in BOOLEAN : indicate(t, ind_ok)
    /\ unconfirmed' = IF inflight' > inflight
                      THEN [unconfirmed EXCEPT
                               ![t] = Some(connections[peer_index[t] + 1].peer)]
                      ELSE unconfirmed
    /\ UNCHANGED <<delivery_vars, write_events, started, reg_events, links>>

PendingIndicate == \E t \in Senders : PendingStep(t)

\* The platform confirms an indication it accepted, with any status: from here on
\* a Confirm event has been handled since the indications issued so far.
PendingConfirm ==
    /\ inflight > 0
    /\ inflight' = inflight - 1
    /\ \E status \in GattStatuses : on_Confirm(status)
    /\ unconfirmed' = [t \in Senders |-> None]
    /\ UNCHANGED <<delivery_vars, write_events, started, reg_events, links>>

\* A thread calls send_data.
SendData ==
    /\ \E t \in Senders : send_data(t)
    /\ UNCHANGED <<history_vars, started, reg_events, links, inflight>>

\* Thread t, inside indicate, runs its next critical section.
SenderStep(t) ==
    /\ \E ind_ok \in BOOLEAN : indicate(t, ind_ok)
    /\ UNCHANGED <<history_vars, started, reg_events, links>>

\* A critical section of thread t that does not end in condvar.wait.
SenderProgress(t) == SenderStep(t) /\ pc'[t] # "waiting"

\* A thread inside indicate runs its next critical section.
Indicate == \E t \in Senders : SenderStep(t)

\* Condvar::wait may return without a notification.
SpuriousWakeup ==
    /\ \E t \in Senders :
           /\ pc[t] = "waiting"
           /\ pc' = [pc EXCEPT ![t] = "locking"]
    /\ calls' = <<>>
    /\ locks' = <<>>
    /\ last' = Running
    /\ UNCHANGED <<state_vars, is_connected, buffer_vars, peer_index, issued,
                   history_vars, started, reg_events, links, inflight>>

(* ---------------------------- specification ---------------------------- *)

Registration ==
    \/ Initialize
    \/ ServiceRegistered
    \/ ServiceCreated
    \/ CharacteristicAdded
    \/ DescriptorAdded

Next ==
    \/ Registration
    \/ PeerConnected
    \/ PeerDisconnected
    \/ WriteCccd
    \/ WriteRecv
    \/ WriteRequest
    \/ Confirm
    \/ get_received_data
    \/ SendData
    \/ Indicate
    \/ SpuriousWakeup
    \/ GapEvent
    \/ MtuEvent
    \/ ReadEvent

Spec == Init /\ [][Next]_vars

\* The connection table: connection events and writes that do not reach the
\* inbound buffer; no thread is in send_data.
NextTable ==
    \/ Registration
    \/ PeerConnected
    \/ PeerDisconnected
    \/ WriteCccd

SpecTable == Init /\ [][NextTable]_vars

\* The inbound buffer: connection events, writes to the receive characteristic
\* and drains.
NextBuffer ==
    \/ Registration
    \/ PeerConnected
    \/ PeerDisconnected
    \/ WriteRecv
    \/ get_received_data

SpecBuffer == Init /\ [][NextBuffer]_vars

\* The events that carry a status: the registration and the GAP events.
NextStatus ==
    \/ Registration
    \/ GapEvent

SpecStatus == Init /\ [][NextStatus]_vars

\* The write events of every link of the platform, the links the table has no
\* slot for included.
NextWrite ==
    \/ Registration
    \/ PeerConnectedOneMore
    \/ WriteAny

SpecWrite == Init /\ [][NextWrite]_vars

\* The GAP events of a server whose table fills and empties.
NextAdvertising ==
    \/ Registration
    \/ PeerConnectedInTable
    \/ PeerDisconnected
    \/ GapEvent

SpecAdvertising == Init /\ [][NextAdvertising]_vars

\* The read requests: during the registration and after it, of peers that
\* subscribe and unsubscribe.
NextRead ==
    \/ Registration
    \/ PeerConnectedInTable
    \/ WriteCccd
    \/ ReadRequest

SpecRead == Init /\ [][NextRead]_vars

\* The subscriptions: descriptor writes of the peers that have a slot in the table.
NextCccd ==
    \/ Registration
    \/ PeerConnectedInTable
    \/ PeerDisconnected
    \/ WriteCccd

SpecCccd == Init /\ [][NextCccd]_vars

\* The indication flow: the senders, the confirmations and the connection events.
NextSend ==
    \/ Registration
    \/ PeerConnected
    \/ PeerDisconnected
    \/ Confirm
    \/ SendData
    \/ Indicate
    \/ SpuriousWakeup

SpecSend == Init /\ [][NextSend]_vars

\* The indication flow under fair scheduling, with a platform that confirms every
\* indication it accepted with the success status: a thread that can run its
\* critical section does so, and a thread that can again and again find the gate
\* open passes it.
NextLive ==
    \/ Registration
    \/ PeerConnectedInTable
    \/ PeerDisconnected
    \/ ConfirmSuccess
    \/ SendData
    \/ Indicate
    \/ SpuriousWakeup

FairScheduling ==
    /\ WF_vars(ConfirmSuccess)
    /\ \A t \in Senders : WF_vars(SenderStep(t)) /\ SF_vars(SenderProgress(t))

SpecLive == Init /\ [][NextLive]_vars /\ FairScheduling

\* The indication flow with a platform that keeps no more links than the table
\* has slots and confirms with any status, or not at all.
NextFlow ==
    \/ Registration
    \/ PeerConnectedInTable
    \/ PeerDisconnected
    \/ Confirm
    \/ SendData
    \/ Indicate
    \/ SpuriousWakeup

SpecFlow == Init /\ [][NextFlow]_vars

\* The indication flow with nothing promised about confirmations: a thread that
\* can run its critical section does so, while a confirmation, like a return of
\* condvar.wait without a notification, may never come.
SpecStall == Init /\ [][NextFlow]_vars /\ \A t \in Senders : WF_vars(SenderStep(t))

\* The indication flow with the history of every send call: the connections it
\* indicated and the connections that stayed in the table.
NextDelivery ==
    \/ Registration
    \/ PeerConnectedInTable
    \/ DeliveryDisconnected
    \/ ConfirmSuccess
    \/ DeliverySendData
    \/ DeliveryIndicate
    \/ SpuriousWakeup

SpecDelivery == Init /\ [][NextDelivery]_vars

\* The indication flow with, for every send call, the peer it indicated last and
\* whether a Confirm event has been handled since.
NextPending ==
    \/ Registration
    \/ PeerConnectedInTable
    \/ PeerDisconnected
    \/ PendingConfirm
    \/ PendingSendData
    \/ PendingIndicate
    \/ SpuriousWakeup

SpecPending == Init /\ [][NextPending]_vars

\* One link at a time.
PeerConnectedAlone == PeerConnectedOf({0})

\* A write to the receive characteristic, with or without response.
WriteRecvAny == WriteEvent({RECV_ATTR}, BOOLEAN)

\* Every handler and every public operation that takes a lock, with one peer
\* at a time that reads, writes to the receive characteristic and confirms with
\* the success status.
NextLocks ==
    \/ Registration
    \/ PeerConnectedAlone
    \/ PeerDisconnected
    \/ MtuEvent
    \/ ReadEvent
    \/ WriteRecvAny
    \/ get_received_data
    \/ ConfirmSuccess
    \/ SendData
    \/ Indicate
    \/ SpuriousWakeup

SpecLocks == Init /\ [][NextLocks]_vars

\* The indication flow with confirmations that carry a connection id.
NextConfirm ==
    \/ Registration
    \/ PeerConnectedInTable
    \/ PeerDisconnected
    \/ ConfirmFor
    \/ SendData
    \/ Indicate
    \/ SpuriousWakeup

SpecConfirm == Init /\ [][NextConfirm]_vars

\* The indication flow towards peers that subscribe and unsubscribe.
NextSubscribed ==
    \/ Registration
    \/ PeerConnectedInTable
    \/ PeerDisconnected
    \/ WriteCccd
    \/ ConfirmSuccess
    \/ SendData
    \/ Indicate
    \/ SpuriousWakeup

SpecSubscribed == Init /\ [][NextSubscribed]_vars

(* ------------------------------ properties ----------------------------- *)

\* Number of calls named `name` among the outbound calls cs.
CountCalls(cs, name) == Cardinality({i \in 1 .. Len(cs) : cs[i].call = name})

\* Index of the table entry of connection id c (the platform never uses an id
\* twice at a time), 0 when there is none.
SlotOf(conns, c) ==
    IF \E i \in 1 .. Len(conns) : conns[i].conn_id = c
    THEN CHOOSE i \in 1 .. Len(conns) : conns[i].conn_id = c
    ELSE 0

\* C2: for every sequence of peer-connected and peer-disconnected events the
\* connection table never holds more than MAX_CONNECTIONS entries.
C2_TableBounded == Len(connections) <= MAX_CONNECTIONS

\* C2 witness: a connect event arrived while the table was full and was refused.
C2_Witness ==
    /\ last.op = "PeerConnected"
    /\ calls = <<>>
    /\ Len(connections) = MAX_CONNECTIONS
    /\ Cardinality(links) = MAX_CONNECTIONS + 1

\* C3: the connection table never contains two entries with the same peer
\* address, also after a connect event for an address that is already in it.
C3_UniquePeers ==
    \A i, j \in 1 .. Len(connections) :
        i # j => connections[i].peer # connections[j].peer

\* C4: after a peer-disconnected event has been processed, is_connected() is
\* true if and only if the connection table is non-empty.
C4_FlagReflectsTable ==
    last.op = "PeerDisconnected" => (is_connected <=> connections # <<>>)

\* C7: a peer-disconnected event that removes the last remaining entry of the
\* table issues exactly one start-advertising request; one that leaves the table
\* non-empty issues none.
C7_RestartOnLastDisconnect ==
    [][last'.op = "PeerDisconnected" =>
          /\ (connections # <<>> /\ connections' = <<>>)
                => CountCalls(calls', "start_advertising") = 1
          /\ connections' # <<>>
                => CountCalls(calls', "start_advertising") = 0]_vars

\* C7 witness: the last peer disconnected and one restart request was issued.
C7_Witness ==
    /\ last.op = "PeerDisconnected"
    /\ connections = <<>>
    /\ links = {}
    /\ calls = <<Call("start_advertising", "")>>

\* C8: a write to the recorded CCCD handle from a connection of the table sets
\* its subscribed flag for [0x02, 0x00] at offset 0, clears it for any other
\* 2-byte payload at offset 0, leaves it unchanged for any other offset or
\* length, and never changes another connection's flag.
C8_CccdWrite ==
    [][(last'.op = "Write" /\ ind_cccd_handle # None) =>
          \A l \in links :
              LET idx == SlotOf(connections, l[1])
                  handle == ind_cccd_handle[1]
              IN  idx # 0 =>
                  \A offset \in Offsets, value \in Values :
                      on_Write(l[1], l[2], handle, offset, FALSE, FALSE, value, TRUE)
                      => /\ Len(connections') = Len(connections)
                         /\ (offset = 0 /\ value = <<2, 0>>)
                               => connections'[idx].subscribed
                         /\ (offset = 0 /\ Len(value) = 2 /\ value # <<2, 0>>)
                               => ~connections'[idx].subscribed
                         /\ (offset # 0 \/ Len(value) # 2)
                               => connections'[idx].subscribed
                                      = connections[idx].subscribed
                         /\ \A j \in 1 .. Len(connections) :
                               j # idx => connections'[j] = connections[j]]_vars

\* C8 witness: of two connected peers one has subscribed through a CCCD write.
C8_Witness ==
    /\ last.op = "Write"
    /\ Len(connections) = 2
    /\ connections[2].subscribed
    /\ ~connections[1].subscribed

\* C9: the inbound buffer is a lossless FIFO: the bytes drained so far followed
\* by the bytes still buffered are the bytes written, in order, and a drain leaves
\* the buffer empty (so a second drain with no write in between returns nothing).
C9_LosslessFifo ==
    /\ drained \o received_data = written
    /\ last.op = "get_received_data" => received_data = <<>>

\* C9 witness: some bytes were drained and later writes are buffered behind them.
C9_Witness ==
    /\ drained # <<>>
    /\ received_data # <<>>
    /\ Len(written) = MaxWritten

\* Thread t runs a critical section of indicate in this step.
StepOf(t) ==
    /\ pc[t] = "locking"
    /\ <<pc'[t], peer_index'[t]>> # <<pc[t], peer_index[t]>>

\* C1: at most one indication is unconfirmed at any instant: an indicate call
\* is made only while the pending marker is clear, an accepted one sets the
\* marker, and only an accepted confirmation clears it; a sender that finds the
\* marker set makes no call.
C1_OneUnconfirmed ==
    [][/\ inflight' <= 1
       /\ CountCalls(calls', "indicate") > 0 => ind_confirmed = None
       /\ inflight' > inflight => ind_confirmed = None /\ ind_confirmed' # None
       /\ (ind_confirmed # None /\ ind_confirmed' = None)
             => last' = [op |-> "Confirm", ok |-> TRUE, n |-> 0]
       /\ \A t \in Senders :
             (StepOf(t) /\ ind_confirmed # None /\ peer_index[t] < Len(connections))
                 => calls' = <<>> /\ pc'[t] = "waiting"]_vars

\* C1 witness: with two peers connected, one indication is unconfirmed and both
\* senders are blocked behind it.
C1_Witness ==
    /\ inflight = 1
    /\ ind_confirmed # None
    /\ Len(connections) = MAX_CONNECTIONS
    /\ \A t \in Senders : pc[t] = "waiting"

C6_AssertionHolds ==
    /\ last.op # "unreachable!"
    /\ inflight > 0 => ind_confirmed # None

\* C6 witness: a success confirmation was processed after the peer of the
\* indication, and every other peer, had disconnected.
C6_Witness ==
    /\ last = [op |-> "Confirm", ok |-> TRUE, n |-> 0]
    /\ ind_confirmed = None
    /\ connections = <<>>
    /\ links = {}

\* C10: with the registration complete, exactly one peer in the table and no
\* pending marker, the critical section of a sender for the first slot makes
\* exactly one indicate call, to that peer, and the one for the second slot
\* returns Ok; with the marker set the sender makes no call and waits, and it
\* leaves the wait only through a confirmation (or a spurious wakeup, after which
\* it waits again).
C10_SingleSubscriberSend ==
    [][\A t \in Senders :
          /\ (StepOf(t) /\ Ready /\ Len(connections) = 1) =>
                IF peer_index[t] = 0
                THEN IF ind_confirmed = None
                     THEN /\ calls' = <<[call |-> "indicate",
                                         arg |-> ToString(connections[1].conn_id),
                                         ok |-> calls'[1].ok]>>
                          /\ calls'[1].ok =>
                                /\ ind_confirmed' = Some(connections[1].peer)
                                /\ issued'[t] = issued[t] + 1
                                /\ pc'[t] = "locking"
                                /\ peer_index'[t] = 1
                     ELSE /\ calls' = <<>>
                          /\ pc'[t] = "waiting"
                          /\ ind_confirmed' = ind_confirmed
                ELSE /\ calls' = <<>>
                     /\ pc'[t] = "idle"
                     /\ last' = Returned(TRUE, issued[t])
          /\ (pc[t] = "waiting" /\ pc'[t] # "waiting") =>
                /\ pc'[t] = "locking"
                /\ \/ ind_confirmed # None /\ ind_confirmed' = None
                   \/ last' = Running /\ ind_confirmed' = ind_confirmed]_vars

\* C10 witness: one peer, one call has returned leaving its indication
\* unconfirmed, and the following call is blocked in the wait.
C10_Witness ==
    /\ Ready
    /\ Len(connections) = 1
    /\ inflight = 1
    /\ ind_confirmed = Some(connections[1].peer)
    /\ pc["t1"] = "waiting"
    /\ peer_index["t1"] = 0
    /\ pc["t2"] = "idle"

C12_SendWithoutConnection ==
    [][~is_connected =>
          \A t \in Senders :
              pc[t] = "idle" =>
                  /\ pc'[t] = "idle"
                  /\ send_data(t) =>
                        /\ last' = Returned(FALSE, 0)
                        /\ calls' = <<>>
                        /\ ind_confirmed' = ind_confirmed
                        /\ connections' = connections
                        /\ inflight' = inflight
                        /\ pc' = pc]_vars

\* C12 witness: send_data returned Err without a call while the flag was false,
\* the table held a connection and the marker was set.
C12_Witness ==
    /\ last = Returned(FALSE, 0)
    /\ calls = <<>>
    /\ ~is_connected
    /\ connections # <<>>
    /\ ind_confirmed # None

\* The steps of the registration sequence.
RegistrationOps ==
    {"initialize", "ServiceRegistered", "ServiceCreated", "CharacteristicAdded",
     "DescriptorAdded"}

\* C13: the registration sequence makes its calls in a fixed order: the
\* app-registered event (app id 0) ends in the one create_service call; the
\* service-created event with handle H makes start_service(H), then
\* add_characteristic for the receive and for the indicate characteristic; the
\* characteristic-added event of the indicate characteristic makes the one
\* add_descriptor call (CCCD), that of the receive characteristic makes none; the
\* descriptor-added event records the CCCD handle and makes no call; and
\* is_connected() is false all along.
C13_RegistrationOrder ==
    [][/\ (last'.op = "ServiceRegistered" /\ last'.ok) =>
             /\ gatt_if' = Some(GATT_IF)
             /\ CountCalls(calls', "create_service") = 1
             /\ calls'[Len(calls')].call = "create_service"
             /\ \A i \in 1 .. Len(calls') :
                   calls'[i].call \notin {"start_service", "add_characteristic",
                                          "add_descriptor"}
       /\ (last'.op = "ServiceCreated" /\ last'.ok) =>
             /\ service_handle' = Some(SVC_HANDLE)
             /\ calls' = <<[call |-> "start_service", arg |-> SVC_HANDLE, ok |-> TRUE],
                           [call |-> "add_characteristic",
                            arg |-> RECV_CHARACTERISTIC_UUID, ok |-> TRUE],
                           [call |-> "add_characteristic",
                            arg |-> IND_CHARACTERISTIC_UUID, ok |-> TRUE]>>
       /\ (last'.op = "CharacteristicAdded" /\ last'.ok) =>
             IF Head(reg_events).uuid = IND_CHARACTERISTIC_UUID
             THEN /\ calls' = <<[call |-> "add_descriptor", arg |-> CCCD_UUID,
                                 ok |-> TRUE]>>
                  /\ ind_handle' = Some(IND_ATTR)
             ELSE /\ calls' = <<>>
                  /\ Head(reg_events).uuid = RECV_CHARACTERISTIC_UUID
                  /\ recv_handle' = Some(RECV_ATTR)
       /\ (last'.op = "DescriptorAdded" /\ last'.ok) =>
             /\ calls' = <<>>
             /\ ind_cccd_handle' = Some(CCCD_ATTR)
       /\ last'.op \in RegistrationOps => ~is_connected'
       /\ ~Ready' => ~is_connected']_vars

\* C13 witness: the descriptor-added event completed the registration; no peer
\* has connected.
C13_Witness ==
    /\ last = [op |-> "DescriptorAdded", ok |-> TRUE, n |-> 0]
    /\ Ready
    /\ calls = <<>>
    /\ ~is_connected

\* The statuses check_gatt_status and check_bt_status classify as errors.
GattErrors == {"Error", "InternalError", "Busy"}
BtErrors == {"Fail", "NotReady", "Busy"}

\* The handler of the registration event the platform delivers next, were the
\* event to carry `status`.
RegistrationEvent(status) ==
    /\ reg_events # <<>>
    /\ LET e == Head(reg_events)
       IN  CASE e.ev = "ServiceRegistered" ->
                  \E nfail \in 0 .. 3 :
                      on_ServiceRegistered(status, APP_ID, GATT_IF, nfail)
             [] e.ev = "ServiceCreated" ->
                  \E nfail \in 0 .. 3 : on_ServiceCreated(status, SVC_HANDLE, nfail)
             [] e.ev = "CharacteristicAdded" ->
                  \E nfail \in 0 .. 1 :
                      on_CharacteristicAdded(status, AttrOf(e.uuid), SVC_HANDLE,
                                             e.uuid, nfail)
             [] e.ev = "DescriptorAdded" ->
                  on_DescriptorAdded(status, AttrOf(e.uuid), SVC_HANDLE, e.uuid)

\* The handler stopped at the status: no handle recorded, no call, Err returned,
\* and the platform owes no event for this step (nothing is tried again).
StoppedAtStatus ==
    /\ UNCHANGED reg_vars
    /\ calls' = <<>>
    /\ last' = [op |-> Head(reg_events).ev, ok |-> FALSE, n |-> 0]
    /\ reg_events' = Tail(reg_events)

\* C14 (as stated): every status other than success on a registration event
\* stops that step: no handle recorded, no call, an error returned, no retry.
C14_AnyNonSuccessStops ==
    [][\A status \in GattStatuses \ {"Ok"} :
          RegistrationEvent(status) => StoppedAtStatus]_vars

\* C14 (amended): a status of the classified error set (Error, InternalError,
\* Busy) on a registration event stops that step: no handle recorded, no call, an
\* error returned, no retry; any other status is handled like success.
C14_ClassifiedErrorStops ==
    [][/\ \A status \in GattErrors : RegistrationEvent(status) => StoppedAtStatus
       /\ \A status \in GattStatuses \ GattErrors :
             RegistrationEvent(status) => RegistrationEvent("Ok")]_vars

\* C14 witness: the service-created event carried a rejected status: the service
\* handle is not recorded and no characteristic was requested.
C14_Witness ==
    /\ last = [op |-> "ServiceCreated", ok |-> FALSE, n |-> 0]
    /\ calls = <<>>
    /\ gatt_if # None
    /\ service_handle = None
    /\ reg_events = <<>>

\* C15: the status translators fail exactly for the classified error sets
\* (check_bt_status: Fail, NotReady, Busy; check_gatt_status: Error,
\* InternalError, Busy), always with the error ESP_FAIL, and return Ok for every
\* other status; the GAP handler acts on that outcome.
C15_StatusTranslators ==
    [][/\ \A status \in BtStatuses :
             check_bt_status(status)
                 = IF status \in BtErrors THEN <<"Err", "ESP_FAIL">> ELSE <<"Ok">>
       /\ \A status \in GattStatuses :
             check_gatt_status(status)
                 = IF status \in GattErrors THEN <<"Err", "ESP_FAIL">> ELSE <<"Ok">>
       /\ \A status \in BtStatuses, adv_ok \in BOOLEAN :
             /\ on_gap_event("AdvertisingStarted", status, adv_ok)
                   => (last'.ok <=> status \notin BtErrors)
             /\ on_gap_event("AdvertisingConfigured", status, adv_ok)
                   => (calls' = <<>> <=> status \in BtErrors)]_vars

\* C15 witness: an advertising-configured event with a status of the error set
\* was rejected: no start_advertising call.
C15_Witness ==
    /\ last = [op |-> "AdvertisingConfigured", ok |-> FALSE, n |-> 0]
    /\ calls = <<>>

\* C18: a confirmation whose status the translator rejects (Error,
\* InternalError, Busy) leaves the pending marker set and wakes no blocked
\* sender; a confirmation whose status it accepts clears the marker and wakes
\* every blocked sender.
C18_ConfirmationByStatus ==
    [][/\ \A status \in GattErrors :
             on_Confirm(status)
                 => /\ ind_confirmed' = ind_confirmed
                    /\ pc' = pc
                    /\ ~last'.ok
       /\ \A status \in GattStatuses \ GattErrors :
             on_Confirm(status) /\ ind_confirmed # None
                 => /\ ind_confirmed' = None
                    /\ \A t \in Senders :
                          pc'[t] = IF pc[t] = "waiting" THEN "locking" ELSE pc[t]
                    /\ last'.ok]_vars

\* C18 witness: an accepted confirmation has cleared the marker while both
\* threads were inside indicate, one past its first indication and one before.
C18_Witness ==
    /\ last = [op |-> "Confirm", ok |-> TRUE, n |-> 0]
    /\ ind_confirmed = None
    /\ \A t \in Senders : pc[t] = "locking"
    /\ \E t, u \in Senders : issued[t] = 1 /\ issued[u] = 0

\* The table has an entry of connection conn_id whose peer address is addr.
BelongsTo(conn_id, addr) ==
    \E i \in 1 .. Len(connections) :
        connections[i].conn_id = conn_id /\ connections[i].peer = addr

\* C17: the pending marker goes from set to unset only in the confirmation
\* handler, and only for a confirmation that belongs to the peer whose address
\* the marker records: a confirmation event that carries another connection
\* leaves the marker set.
C17_OnlyMatchingConfirmationClears ==
    [][/\ ind_confirmed # None /\ ind_confirmed' = None => last'.op = "Confirm"
       /\ \A status \in GattStatuses, conn_id \in ConnIds :
             /\ ind_confirmed # None
             /\ ~BelongsTo(conn_id, ind_confirmed[1])
             /\ on_ConfirmEvent(status, conn_id)
             => ind_confirmed' = ind_confirmed]_vars

\* C17, the part that holds: the marker goes from set to unset in the
\* confirmation handler only.
C17_ClearedByConfirmOnly ==
    [][ind_confirmed # None /\ ind_confirmed' = None => last'.op = "Confirm"]_vars

\* The slot thread t is at holds a connection.
SlotPresent(t) == peer_index[t] < Len(connections)

\* C16 (as stated): once the pending marker is set and no confirmation event is
\* delivered any more, a send call that has blocked at a present slot never
\* returns.
C16_BlocksForever ==
    \A t \in Senders :
        [](pc[t] = "waiting" /\ ind_confirmed # None
              => ([](pc[t] # "idle") \/ <>(last.op = "Confirm")))

\* C16 (amended): while the pending marker is set, a step other than a
\* confirmation keeps the marker and issues no indicate call; a send call that
\* reaches a present slot blocks; connect and disconnect events, the pending
\* peer's included, wake no waiter; and a call returns only past a slot that is
\* no longer present.
C16_StallWhilePending ==
    [][ind_confirmed # None /\ last'.op # "Confirm"
          => /\ ind_confirmed' = ind_confirmed
             /\ CountCalls(calls', "indicate") = 0
             /\ last'.op \in {"PeerConnected", "PeerDisconnected"}
                   => UNCHANGED sender_vars
             /\ \A t \in Senders :
                   /\ StepOf(t) /\ SlotPresent(t)
                         => pc'[t] = "waiting" /\ peer_index'[t] = peer_index[t]
                   /\ pc[t] # "idle" /\ pc'[t] = "idle" => ~SlotPresent(t)]_vars

\* C16 witness: the pending peer has disconnected and another peer has
\* connected; the marker still names the peer that is gone and a send call is
\* still blocked.
C16_Witness ==
    /\ ind_confirmed # None
    /\ position(connections, ind_confirmed[1]) = 0
    /\ connections # <<>>
    /\ last.op = "PeerConnected"
    /\ \E t \in Senders : pc[t] = "waiting" /\ SlotPresent(t)

\* Number of indications of connection c in the history h of a call.
Indications(h, c) == Cardinality({i \in 1 .. Len(h) : h[i] = c})

\* C19: when a send call returns success, every connection that was in the table
\* from the start to the end of the call has received exactly one indication from
\* that call, also when other peers connected or disconnected meanwhile.
C19_OneIndicationPerConnection ==
    [][\A t \in Senders :
          pc[t] # "idle" /\ pc'[t] = "idle" /\ last' = Returned(TRUE, issued[t])
              => \A c \in stayed[t] : Indications(served'[t], c) = 1]_vars

\* The mutexes held just before operation i of the lock trace tr.
HeldBefore(tr, i) ==
    {m \in Mutexes :
        \E j \in 1 .. (i - 1) :
            /\ tr[j] = Lock(m)
            /\ \A k \in (j + 1) .. (i - 1) : tr[k] # Unlock(m)}

\* C20 (as stated): no handler and no public operation takes a lock while it
\* holds another one.
C20_NoNestedScopes ==
    \A i \in 1 .. Len(locks) :
        locks[i][1] = "lock" => HeldBefore(locks, i) = {}

\* C20 (amended): scopes nest in one order only: a lock taken while another
\* one is held is the connected-flag lock or the inbound-buffer lock, taken
\* while the shared-state lock, and nothing else, is held; this happens in the
\* disconnect handler (flag) and in the write handler (buffer) and nowhere else;
\* no step ends with a lock held.
C20_NestedUnderStateOnly ==
    /\ \A i \in 1 .. Len(locks) :
          locks[i][1] = "lock" /\ HeldBefore(locks, i) # {}
              => /\ HeldBefore(locks, i) = {"state"}
                 /\ \/ locks[i][2] = "is_connected" /\ last.op = "PeerDisconnected"
                    \/ locks[i][2] = "received_data" /\ last.op = "Write"
    /\ HeldBefore(locks, Len(locks) + 1) = {}
    /\ last.op = "PeerDisconnected"
          => locks = <<Lock("state"), Lock("is_connected"),
                       Unlock("is_connected"), Unlock("state")>>

\* C20 witness: a write to the receive characteristic was appended to the
\* inbound buffer under both locks.
C20_Witness ==
    /\ last.op = "Write"
    /\ received_data # <<>>
    /\ locks = <<Lock("state"), Lock("received_data"),
                 Unlock("received_data"), Unlock("state")>>

\* The calls of a handler that answered the write event e once with success:
\* with the echo of handle, offset and value for a prepared write, bare for a
\* normal one.
AnsweredOnce(cs, e) ==
    /\ Len(cs) = 1
    /\ cs[1].call = "send_response"
    /\ cs[1].arg = IF e.is_prep
                   THEN ToString(<<e.conn_id, "Ok", e.handle, e.offset, e.value>>)
                   ELSE ToString(<<e.conn_id, "Ok">>)

\* The handle is the recorded CCCD handle or the recorded receive handle.
MatchesHandle(handle) == Some(handle) = ind_cccd_handle \/ Some(handle) = recv_handle

\* The table has an entry of connection conn_id.
InTable(conn_id) == \E i \in 1 .. Len(connections) : connections[i].conn_id = conn_id

\* The step that ran last handled the write event the history ends with.
WriteHandled == last.op = "Write" /\ write_events # <<>>
LastWrite == write_events[Len(write_events)]

\* C21 (as stated): a write event whose handle is neither the CCCD nor the
\* receive handle gets no response; a write event whose handle is one of them
\* gets exactly one success response when it needs one (with echo for a prepared
\* write, bare for a normal one) and none when it needs none.
C21_WriteResponses ==
    WriteHandled =>
        IF MatchesHandle(LastWrite.handle) /\ LastWrite.need_rsp
        THEN AnsweredOnce(calls, LastWrite)
        ELSE calls = <<>>

\* C21 (amended): the same for the write events of a connection that has an
\* entry in the table, a malformed CCCD write included; a write event of a
\* connection without entry gets no response, whatever its handle.
C21_WriteResponsesInTable ==
    WriteHandled =>
        IF InTable(LastWrite.conn_id) /\ MatchesHandle(LastWrite.handle)
              /\ LastWrite.need_rsp
        THEN AnsweredOnce(calls, LastWrite) /\ last.ok = LastWrite.rsp_ok
        ELSE calls = <<>> /\ last.ok

\* C21 witness: a prepared CCCD write of one byte at offset 1, malformed as a
\* subscription, was acknowledged with its echo.
C21_Witness ==
    /\ WriteHandled
    /\ InTable(LastWrite.conn_id)
    /\ LastWrite.handle = CCCD_ATTR /\ LastWrite.is_prep
    /\ LastWrite.offset = 1 /\ LastWrite.value = <<2>>
    /\ calls = <<Call("send_response",
                      ToString(<<LastWrite.conn_id, "Ok", CCCD_ATTR, 1, <<2>>>>))>>

\* The one response of a read request of conn_id, as send_response is called.
ReadAnswer(conn_id, status, value) ==
    Call("send_response", ToString(<<conn_id, status, value>>))

\* The handles the server has recorded so far.
RecordedHandles == {h \in Handles : Some(h) \in {recv_handle, ind_handle, ind_cccd_handle}}

\* The calls of a step with the results of the platform left out.
Requested(cs) == [i \in 1 .. Len(cs) |-> [cs[i] EXCEPT !.ok = TRUE]]

\* C22: every read request is answered with exactly one response, with the
\* success status when its handle is one of the recorded handles and with the
\* error status otherwise, a handle that is still unset matching no request; the
\* handler fails only when the platform refuses the response.
C22_ReadAnswered ==
    [][\A conn_id \in ConnIds, handle \in Handles, offset \in Offsets, rsp_ok \in BOOLEAN :
          on_Read(conn_id, handle, offset, rsp_ok) =>
              /\ Len(calls') = 1
              /\ \E value \in {None, Some(<<0, 0>>)} :
                     Requested(calls') =
                         <<ReadAnswer(conn_id,
                                      IF handle \in RecordedHandles THEN "Ok" ELSE "Error",
                                      value)>>
              /\ last'.ok = rsp_ok]_vars

\* C22 witness: a read request that arrived before the receive characteristic
\* was added has been answered with the error status, and the handler succeeded.
C22_Witness ==
    /\ last.op = "Read" /\ last.ok
    /\ service_handle # None /\ recv_handle = None
    /\ calls = <<ReadAnswer(0, "Error", None)>>

\* C23: a read of the recorded CCCD handle is answered with the two bytes 0, 0
\* whatever the subscriptions are, and no read request changes the state of the
\* server.
C23_CccdReadsZero ==
    [][\A conn_id \in ConnIds, handle \in Handles, offset \in Offsets, rsp_ok \in BOOLEAN :
          on_Read(conn_id, handle, offset, rsp_ok) =>
              /\ Some(handle) = ind_cccd_handle =>
                     Requested(calls') = <<ReadAnswer(conn_id, "Ok", Some(<<0, 0>>))>>
              /\ UNCHANGED <<state_vars, is_connected, buffer_vars, sender_vars>>]_vars

\* C23 witness: a peer that has subscribed has read the CCCD and got 0, 0.
C23_Witness ==
    /\ last.op = "Read"
    /\ \E i \in 1 .. Len(connections) :
           /\ connections[i].subscribed
           /\ calls = <<ReadAnswer(connections[i].conn_id, "Ok", Some(<<0, 0>>))>>

\* C24: the handler of an advertising-stopped event requests start_advertising
\* exactly once, whatever the status of the event and however full the table
\* is; the handler of an advertising-configured event requests it, once, only
\* when check_bt_status accepts the status of the event.
C24_AdvertisingRestarted ==
    [][\A status \in BtStatuses, adv_ok \in BOOLEAN :
          /\ on_gap_event("AdvertisingStopped", status, adv_ok) =>
                 Requested(calls') = <<Call("start_advertising", "")>>
          /\ on_gap_event("AdvertisingConfigured", status, adv_ok) =>
                 Requested(calls') = IF status \in BtErrors
                                     THEN <<>>
                                     ELSE <<Call("start_advertising", "")>>]_vars

\* C24 witness: with the table full, an advertising-stopped event has been
\* answered with a start_advertising request.
C24_Witness ==
    /\ Len(connections) = MAX_CONNECTIONS
    /\ last.op = "AdvertisingStopped"
    /\ calls = <<Call("start_advertising", "")>>

\* The handles are recorded in the order of their dependency.
HandlesOrdered ==
    /\ recv_handle # None \/ ind_handle # None => service_handle # None
    /\ ind_cccd_handle # None => ind_handle # None /\ service_handle # None

\* No step clears or replaces a handle that is recorded.
HandlesKept ==
    /\ service_handle # None => service_handle' = service_handle
    /\ recv_handle # None => recv_handle' = recv_handle
    /\ ind_handle # None => ind_handle' = ind_handle
    /\ ind_cccd_handle # None => ind_cccd_handle' = ind_cccd_handle

\* C25: in every reachable state a recorded characteristic handle implies a
\* recorded service handle and a recorded CCCD handle implies a recorded
\* indicate handle and service handle; a handle, once recorded, is never cleared
\* and never changes.
C25_HandleOrder == []HandlesOrdered /\ [][HandlesKept]_vars

\* C25 witness: every handle is recorded and the server went on handling events.
C25_Witness ==
    /\ service_handle # None /\ recv_handle # None
    /\ ind_handle # None /\ ind_cccd_handle # None
    /\ last.op = "AdvertisingStopped"

\* C26: between two handlers, is_connected() returning true implies that the
\* connection table is not empty.
C26_FlagImpliesEntry == is_connected => connections # <<>>

\* C26 witness: a connect handler has set the flag, and the table holds the one
\* entry of a link other than link 0.
C26_Witness ==
    /\ is_connected /\ Len(connections) = 1
    /\ last.op = "PeerConnected"
    /\ \E i \in 1 .. Len(connections) : connections[i].conn_id # 0

\* C27: when a send call that issued at least one indication returns with
\* success and no Confirm event has been handled since its last indication, the
\* pending marker holds the address of the peer it indicated last.
C27_MarkerHeldAtReturn ==
    [][\A t \in Senders :
          (/\ pc[t] # "idle" /\ pc'[t] = "idle"
           /\ last'.op = "returned" /\ last'.ok /\ last'.n >= 1
           /\ unconfirmed'[t] # None)
              => ind_confirmed' = unconfirmed'[t]]_vars

\* C27 witness: a send call has returned with success in a step of its own after
\* its one indication, which is unconfirmed, and its peer has left the table.
C27_Witness ==
    /\ last = Returned(TRUE, 1)
    /\ connections = <<>>
    /\ \E t \in Senders :
           /\ pc[t] = "idle"
           /\ unconfirmed[t] # None /\ ind_confirmed = unconfirmed[t]

\* C28: when the platform refuses the indication of a slot, the send call returns
\* an error in that step: the marker is as it was, no further slot is attempted,
\* the shared-state lock is released, and the indications the call issued before
\* stay issued and counted.
C28_FailedIndicationReturns ==
    [][\A t \in Senders :
          indicate(t, FALSE) /\ calls' # <<>> =>
              /\ Len(calls') = 1 /\ calls'[1].call = "indicate" /\ ~calls'[1].ok
              /\ last' = Returned(FALSE, issued[t])
              /\ pc'[t] = "idle"
              /\ ind_confirmed' = ind_confirmed
              /\ inflight' = inflight
              /\ locks' = <<Lock("state"), Unlock("state")>>]_vars

\* C28 witness: a send call has returned an error at its second slot, after the
\* platform had accepted its indication of the first one.
C28_Witness ==
    /\ last = Returned(FALSE, 1)
    /\ Len(calls) = 1 /\ ~calls[1].ok
    /\ ind_confirmed = None

\* C29: a write event whose connection id has no entry in the table has no
\* effect: nothing is appended to the inbound buffer, no entry and no subscribed
\* flag of the table changes, no response is sent, and the handler succeeds.
C29_UnknownConnectionIgnored ==
    [][(/\ Len(write_events') > Len(write_events)
        /\ ~InTable(write_events'[Len(write_events')].conn_id))
           => /\ calls' = <<>>
              /\ last' = [op |-> "Write", ok |-> TRUE, n |-> 0]
              /\ UNCHANGED <<connections, received_data, written>>]_vars

\* C29 witness: with the table full, the link the table had no slot for has
\* written the subscribing value to the CCCD with a request for a response;
\* nobody is subscribed and nothing was answered.
C29_Witness ==
    /\ WriteHandled
    /\ Len(connections) = MAX_CONNECTIONS
    /\ ~InTable(LastWrite.conn_id)
    /\ LastWrite.handle = CCCD_ATTR /\ LastWrite.offset = 0
    /\ LastWrite.value = <<2, 0>> /\ LastWrite.need_rsp
    /\ \A i \in 1 .. Len(connections) : ~connections[i].subscribed
    /\ calls = <<>>

====
